---- MODULE Spec2Model ----
(***************************************************************************)
(* A model of the CATMAID data source of neuroglancer                      *)
(* (src/neuroglancer/datasource/catmaid/frontend.ts): the memoized         *)
(* metadata fetchers, the fallback-driven path completer and the tile      *)
(* pyramid builder.                                                        *)
(*                                                                         *)
(* Strings are sequences of one-character strings, so that length, split,  *)
(* join, Number() and toString() are computed and not assumed.             *)
(***************************************************************************)
EXTENDS Integers, Sequences, FiniteSets, TLC

\* ------------------------------------------------------------------ bounds

\* Largest number of slash-separated segments of a path typed by one of two
\* concurrent invocations.
MaxSegs == 3

\* Largest number of segments of a path typed by a single invocation.
MaxDeepSegs == 5

\* Largest stored zoomLevels of a stack handed to getSources.
MaxZoom == 2

\* Largest number of segments behind the host of a path given to getVolume.
MaxVolumeSegs == 4

\* Largest number of mirrors of a stack, and their largest position.
MaxMirrors == 3

\* Largest number of projects in the body of a projects list.
MaxProjects == 2

\* ----------------------------------------------------------------- strings

Slash == "/"

Digits == <<"0", "1", "2", "3", "4", "5", "6", "7", "8", "9">>

DigitValue(c) == (CHOOSE i \in 1..Len(Digits) : Digits[i] = c) - 1

\* Number(s) of JavaScript on a string of decimal digits; Number("") is 0.
\* (Every segment of the paths explored is a digit string.)
RECURSIVE Number(_)
Number(s) ==
    IF Len(s) = 0 THEN 0
    ELSE 10 * Number(SubSeq(s, 1, Len(s) - 1)) + DigitValue(s[Len(s)])

\* n.toString() for a natural number n.
RECURSIVE NumToString(_)
NumToString(n) ==
    IF n < 10 THEN <<Digits[n + 1]>>
    ELSE NumToString(n \div 10) \o <<Digits[(n % 10) + 1]>>

\* s.startsWith(p)
StartsWith(s, p) == Len(p) <= Len(s) /\ SubSeq(s, 1, Len(p)) = p

\* s.split('/'): one more piece than there are slashes in s.
RECURSIVE Split(_)
Split(s) ==
    IF \A i \in 1..Len(s) : s[i] # Slash THEN <<s>>
    ELSE LET i == CHOOSE k \in 1..Len(s) :
                    s[k] = Slash /\ \A j \in 1..(k - 1) : s[j] # Slash
         IN  <<SubSeq(s, 1, i - 1)>> \o Split(SubSeq(s, i + 1, Len(s)))

\* parts.join('/')
RECURSIVE Join(_)
Join(parts) ==
    IF Len(parts) = 0 THEN <<>>
    ELSE IF Len(parts) = 1 THEN parts[1]
    ELSE parts[1] \o <<Slash>> \o Join(Tail(parts))

\* array.pop(): the array without its last element, and that element.
PopRest(parts) == SubSeq(parts, 1, Len(parts) - 1)
PopLast(parts) == parts[Len(parts)]

\* ------------------------------------------------- Map<string, V> as a list

\* A Map is the sequence of its [key, value] entries in insertion order.
MapHas(m, k) == \E i \in 1..Len(m) : m[i].key = k

MapGet(m, k) == m[CHOOSE i \in 1..Len(m) : m[i].key = k].value

\* map.set(k, v): replaces the value in place, or appends a new entry.
MapSet(m, k, v) ==
    IF MapHas(m, k)
    THEN [i \in 1..Len(m) |-> IF m[i].key = k THEN [key |-> k, value |-> v] ELSE m[i]]
    ELSE Append(m, [key |-> k, value |-> v])

\* map.values()
MapValues(m) == [i \in 1..Len(m) |-> m[i].value]

\* ------------------------------------------------------- metadata parsers

\* A thrown Error or promise rejection: its kind and the promise it stems
\* from, which gives two failures of the same kind their identity.  A promise
\* is named by its key and its number among the requests made for that key.
NoPid == <<>>

NoError == [kind |-> "none", pid |-> NoPid]

NoStackInfo ==
    [dimension |-> <<0, 0, 0>>, translation |-> <<0, 0, 0>>,
     resolution |-> <<0, 0, 0>>, zoomLevels |-> 0, id |-> 0, mirrors |-> <<>>]

\* parseStackMirror: the verified fields of one raw mirror object.  A raw
\* object carries wellFormed = FALSE when one of the verifyObjectProperty
\* calls on it throws.
parseStackMirror(obj) ==
    [id |-> obj.id, title |-> obj.title, fileExtension |-> obj.file_extension,
     tileHeight |-> obj.tile_height, tileWidth |-> obj.tile_width,
     tileSourceType |-> obj.tile_source_type, url |-> obj.image_base,
     position |-> obj.position]

\* The reduce of parseStackInfo: mirrors.set(m.id.toString(), m) in order.
RECURSIVE ReduceMirrors(_, _)
ReduceMirrors(arr, mirrors) ==
    IF Len(arr) = 0 THEN mirrors
    ELSE ReduceMirrors(Tail(arr),
                       MapSet(mirrors, NumToString(Head(arr).id), Head(arr)))

parseStackInfoOk(obj) ==
    /\ obj.wellFormed
    /\ \A i \in 1..Len(obj.mirrors) : obj.mirrors[i].wellFormed

parseStackInfo(obj) ==
    [dimension |-> obj.dimension, translation |-> obj.translation,
     resolution |-> obj.resolution, zoomLevels |-> obj.num_zoom_levels,
     id |-> obj.sid,
     mirrors |-> ReduceMirrors([i \in 1..Len(obj.mirrors) |->
                                   parseStackMirror(obj.mirrors[i])], <<>>)]

\* The inner loop of parseProjectsList: stacks.set(stackInfo.id.toString(), ..)
RECURSIVE ReduceStacks(_, _)
ReduceStacks(arr, stacks) ==
    IF Len(arr) = 0 THEN stacks
    ELSE ReduceStacks(Tail(arr),
                      MapSet(stacks, NumToString(Head(arr).id),
                             [id |-> Head(arr).id, title |-> Head(arr).title,
                              comment |-> Head(arr).comment]))

\* The outer loop of parseProjectsList: projects.set(id.toString(), ..)
RECURSIVE ReduceProjects(_, _)
ReduceProjects(arr, projects) ==
    IF Len(arr) = 0 THEN projects
    ELSE ReduceProjects(Tail(arr),
                        MapSet(projects, NumToString(Head(arr).id),
                               [id |-> Head(arr).id, title |-> Head(arr).title,
                                stacks |-> ReduceStacks(Head(arr).stacks, <<>>)]))

\* parseProjectsList returns normally: the body is an array of objects, it is
\* not empty, and every property verifier passes.
parseProjectsListOk(obj) ==
    /\ obj.isArray
    /\ Len(obj.items) >= 1
    /\ \A i \in 1..Len(obj.items) :
          /\ obj.items[i].wellFormed
          /\ \A j \in 1..Len(obj.items[i].stacks) : obj.items[i].stacks[j].wellFormed

parseProjectsList(obj) == ReduceProjects(obj.items, <<>>)

\* A parser that does not count the projects.
parseProjectsListUncounted(obj) ==
    IF ~obj.isArray THEN "not an array"
    ELSE IF Len(obj.items) >= 1 /\ ~parseProjectsListOk(obj) THEN "verify"
    ELSE "none"

\* What parseProjectsList throws: the error of parseArray, 'No projects found
\* in projects list.', the error of a property verifier, or nothing.
parseProjectsListThrows(obj) ==
    IF ~obj.isArray THEN "not an array"
    ELSE IF Len(obj.items) < 1 THEN "No projects found"
    ELSE IF ~parseProjectsListOk(obj) THEN "verify"
    ELSE "none"

\* ---------------------------------------------------- completion formatters

\* getPrefixMatchesWithDescriptions: the candidates whose value starts with
\* the prefix, in candidate order, each with its description.
PrefixMatches(prefix, cands) ==
    LET Matches(cand) == StartsWith(cand.value, prefix)
    IN  SelectSeq(cands, Matches)

getPrefixMatchesWithDescriptions(prefix, cands) == PrefixMatches(prefix, cands)

\* applyCompletionOffset(offset, completions)
applyCompletionOffset(offset, result) ==
    [result EXCEPT !.offset = result.offset + offset]

autoCompleteProject(projectIdPartial, offset, projectsList) ==
    [offset |-> offset,
     completions |->
        getPrefixMatchesWithDescriptions(projectIdPartial,
            [i \in 1..Len(projectsList) |->
                [value |-> NumToString(projectsList[i].value.id) \o <<Slash>>,
                 description |-> <<projectsList[i].value.title>>]])]

\* autoCompleteStack throws when the project is not in the list.
autoCompleteStackThrows(projectId, projectsList) == ~MapHas(projectsList, projectId)

autoCompleteStack(stackIdPartial, projectId, offset, projectsList) ==
    LET stacks == MapGet(projectsList, projectId).stacks
    IN  [offset |-> offset,
         completions |->
            getPrefixMatchesWithDescriptions(stackIdPartial,
                [i \in 1..Len(stacks) |->
                    [value |-> NumToString(stacks[i].value.id) \o <<Slash>>,
                     description |-> <<stacks[i].value.title, ": ",
                                       stacks[i].value.comment>>]])]

\* [...mirrorsList.values()].sort((a, b) => a.position - b.position): a
\* stable sort.  The place of the i-th element in the sorted array is one
\* more than the number of elements that go in front of it: those of a
\* smaller position, and those of the same position that stand before it.
PositionRank(arr, i) ==
    Cardinality({j \in 1..Len(arr) :
                    \/ arr[j].position < arr[i].position
                    \/ arr[j].position = arr[i].position /\ j < i}) + 1

SortByPosition(arr) ==
    [k \in 1..Len(arr) |-> arr[CHOOSE i \in 1..Len(arr) : PositionRank(arr, i) = k]]

\* A sort that puts the entries of the map itself in the order of position.
mirrorsSortedInPlace(mirrorsList) ==
    LET order == SortByPosition(MapValues(mirrorsList))
    IN  [k \in 1..Len(order) |->
            [key |-> NumToString(order[k].id), value |-> order[k]]]

\* The map autoCompleteMirror was given, after the call: [...values()] is a
\* new array, and it is that array which is sorted.
mirrorsAfterCompletion(mirrorsList) == mirrorsList

\* The mirrors in the iteration order of the map.
mirrorsInInsertionOrder(mirrorsList) == MapValues(mirrorsList)

sortedMirrors(mirrorsList) == SortByPosition(MapValues(mirrorsList))

\* The candidates handed to getPrefixMatchesWithDescriptions, each with the
\* value x.id.toString() and the description x.title.
mirrorCandidates(mirrorsList) ==
    LET sorted == sortedMirrors(mirrorsList)
    IN  [i \in 1..Len(sorted) |->
            [value |-> NumToString(sorted[i].id),
             description |-> <<sorted[i].title>>]]

autoCompleteMirror(mirrorIdPartial, offset, mirrorsList) ==
    [offset |-> offset,
     completions |->
        getPrefixMatchesWithDescriptions(mirrorIdPartial,
                                         mirrorCandidates(mirrorsList))]

\* ---------------------------------------------------------- the CATMAID server

\* What a transport request can come back with: a transport failure, or a
\* JSON body.  The bodies are a well-formed one and malformed ones.
GoodProjectsBody ==
    [isArray |-> TRUE,
     items |-> <<[wellFormed |-> TRUE, id |-> 3, title |-> "P3",
                  stacks |-> <<>>],
                 [wellFormed |-> TRUE, id |-> 1, title |-> "P1",
                  stacks |-> <<[wellFormed |-> TRUE, id |-> 2, title |-> "S2",
                                comment |-> "c2"],
                               [wellFormed |-> TRUE, id |-> 12, title |-> "S12",
                                comment |-> "c12"]>>]>>]

EmptyProjectsBody == [isArray |-> TRUE, items |-> <<>>]

RawMirror(id, position) ==
    [wellFormed |-> TRUE, id |-> id, title |-> <<"M">> \o NumToString(id),
     file_extension |-> "jpg", tile_height |-> 256, tile_width |-> 512,
     tile_source_type |-> id, image_base |-> <<"u">> \o NumToString(id),
     position |-> position]

GoodStackInfoBody ==
    [wellFormed |-> TRUE,
     dimension |-> <<4096, 2048, 10>>, translation |-> <<0, 0, 0>>,
     resolution |-> <<4, 4, 40>>, num_zoom_levels |-> 2, sid |-> 1,
     mirrors |-> <<RawMirror(1, 3), RawMirror(2, 1), RawMirror(12, 2)>>]

BadStackInfoBody == [GoodStackInfoBody EXCEPT !.wellFormed = FALSE]

ProjectsResponses ==
    {[transportOk |-> FALSE, body |-> EmptyProjectsBody],
     [transportOk |-> TRUE, body |-> EmptyProjectsBody],
     [transportOk |-> TRUE, body |-> GoodProjectsBody]}

StackInfoResponses ==
    {[transportOk |-> FALSE, body |-> BadStackInfoBody],
     [transportOk |-> TRUE, body |-> BadStackInfoBody],
     [transportOk |-> TRUE, body |-> GoodStackInfoBody]}

\* ------------------------------------------------------------------- inputs

Http == <<"h", "t", "t", "p", ":", "/", "/">>
Https == <<"h", "t", "t", "p", "s", ":", "/", "/">>
Host == <<"c">>

\* The path segments a user types.  A segment that is complete is the id of
\* a project or stack the server knows ("1") or one it does not know ("2");
\* the last segment, still being typed, is empty or "1".  The segments in
\* front of the last three can only ever be part of the server's address,
\* and are "1".
CompleteSegments == {<<"1">>, <<"2">>}
PartialSegments == {<<>>, <<"1">>}
ServerSegment == <<"1">>

\* The complete segments in front of the last one: at most n of them.
SegLists(n) ==
    {<<>>} \cup {<<s>> : s \in {t \in CompleteSegments : n >= 1}}
    \cup {[i \in 1..k |-> ServerSegment] \o <<s, t>> :
             k \in 0..(n - 2), s \in CompleteSegments, t \in CompleteSegments}

PathsUpTo(n) == {Join(Append(l, s)) : l \in SegLists(n - 1), s \in PartialSegments}

Paths == PathsUpTo(MaxSegs)

DeepPaths == PathsUpTo(MaxDeepSegs)

\* What is typed into the address bar: every path behind the host, and
\* addresses that do not reach the first slash behind the host yet.
Urls ==
    {Http \o Host \o <<Slash>> \o p : p \in Paths}
    \cup {Https \o Host \o <<Slash>> \o p : p \in PartialSegments}
    \cup {Http \o Host, Http, Https \o <<Slash>>, Host \o <<Slash>>}

DeepUrls == {Http \o Host \o <<Slash>> \o p : p \in DeepPaths}

\* -------------------------------------------------------------------- state

VARIABLES
    memo,       \* chunkManager.memoize: the set of [key, pid] entries
    promises,   \* every promise a getter has created, by id <<key, number>>
    callers,    \* the volumeCompleter invocations
    volume,     \* a MultiscaleTileSource: its stackInfo and mirrorId
    sources,    \* what the last getSources call on the volume came to
    opened,     \* the getVolume calls
    calls       \* a direct call of a parser or a formatter, and its outcome

completerVars == <<memo, promises, callers>>
pyramidVars == <<volume, sources, opened, calls>>
vars == <<memo, promises, callers, volume, sources, opened, calls>>

\* The volumeCompleter invocations that run concurrently; "a" names the one
\* that starts first.
Callers == {"a", "b"}

\* ------------------------------------------------------ memoized fetchers

getProjectsListKey(hostnames) ==
    [type |-> "catmaid:getProjectsList", hostnames |-> hostnames]

getStackInfoKey(hostname, projectId, stackId) ==
    [type |-> "catmaid:getStackInfo", hostname |-> hostname,
     projectId |-> projectId, stackId |-> stackId]

PendingPromise(key) ==
    [key |-> key, state |-> "pending", error |-> NoError, projects |-> <<>>,
     stackInfo |-> NoStackInfo, response |-> "none"]

MemoHas(m, key) == \E e \in m : e.key = key

\* memoize.getUncounted(key, getter): the promise held for the key, or else
\* the one the getter creates, which issues the transport request.  The
\* result is the memo, the promises and the id of the promise returned.
NewPid(ps, key) == <<key, Cardinality({q \in DOMAIN ps : q[1] = key}) + 1>>

getUncounted(m, ps, key) ==
    IF MemoHas(m, key)
    THEN [memo |-> m, promises |-> ps,
          pid |-> (CHOOSE e \in m : e.key = key).pid]
    ELSE [memo |-> m \cup {[key |-> key, pid |-> NewPid(ps, key)]},
          promises |-> ps @@ (NewPid(ps, key) :> PendingPromise(key)),
          pid |-> NewPid(ps, key)]

\* A getter called without the memo: a request of its own on every call.
getUnmemoized(m, ps, key) ==
    [memo |-> m, promises |-> ps @@ (NewPid(ps, key) :> PendingPromise(key)),
     pid |-> NewPid(ps, key)]

getStackInfoUnmemoized(m, ps, hostname, projectId, stackId) ==
    getUnmemoized(m, ps, getStackInfoKey(hostname, projectId, stackId))

getStackInfo(m, ps, hostname, projectId, stackId) ==
    getUncounted(m, ps, getStackInfoKey(hostname, projectId, stackId))

getProjectsList(m, ps, hostnames) ==
    getUncounted(m, ps, getProjectsListKey(hostnames))

\* What the response is to the caller of the fetcher.
ResponseKind(key, resp) ==
    IF ~resp.transportOk THEN "transport"
    ELSE IF key.type = "catmaid:getProjectsList"
         THEN (IF parseProjectsListOk(resp.body) THEN "parsed" ELSE "parse")
         ELSE (IF parseStackInfoOk(resp.body) THEN "parsed" ELSE "parse")

\* sendHttpRequest(...).then(parseProjectsList) and
\* sendHttpRequest(...).then(parseStackInfo): the memoized promise once the
\* transport request has come back.
settle(pid, key, resp) ==
    IF ~resp.transportOk
    THEN [PendingPromise(key) EXCEPT !.state = "rejected",
              !.error = [kind |-> "transport", pid |-> pid], !.response = "transport"]
    ELSE IF key.type = "catmaid:getProjectsList"
    THEN (IF parseProjectsListOk(resp.body)
          THEN [PendingPromise(key) EXCEPT !.state = "fulfilled",
                    !.projects = parseProjectsList(resp.body), !.response = "parsed"]
          ELSE [PendingPromise(key) EXCEPT !.state = "rejected",
                    !.error = [kind |-> "parse", pid |-> pid], !.response = "parse"])
    ELSE (IF parseStackInfoOk(resp.body)
          THEN [PendingPromise(key) EXCEPT !.state = "fulfilled",
                    !.stackInfo = parseStackInfo(resp.body), !.response = "parsed"]
          ELSE [PendingPromise(key) EXCEPT !.state = "rejected",
                    !.error = [kind |-> "parse", pid |-> pid], !.response = "parse"])

\* A memo that keeps the promises that failed.
memoKeepingFailures(m, pid, promise) == m

\* The memo once a promise has settled: a failed promise is evicted.
memoAfterSettle(m, pid, promise) ==
    IF promise.state = "rejected" THEN {e \in m : e.pid # pid} ELSE m

\* The promises that wait for a transport request: those of the two fetchers.
HasTransport(key) ==
    key.type \in {"catmaid:getProjectsList", "catmaid:getStackInfo"}

\* The transport request of a pending promise comes back.
TransportRespond(pid) ==
    /\ pid \in DOMAIN promises
    /\ HasTransport(promises[pid].key)
    /\ promises[pid].state = "pending"
    /\ \E resp \in (IF promises[pid].key.type = "catmaid:getProjectsList"
                    THEN ProjectsResponses ELSE StackInfoResponses) :
          LET settled == settle(pid, promises[pid].key, resp)
          IN  /\ promises' = [promises EXCEPT ![pid] = settled]
              /\ memo' = memoAfterSettle(memo, pid, settled)
    /\ UNCHANGED <<callers, volume, sources, opened, calls>>

\* ------------------------------------------------------------ the completer

\* /^((?:http|https):\/\/[^\/?]+)\/(.*)$/ : the scheme, a host of one or more
\* characters other than '/' and '?', a slash, the rest.  The host ends at
\* the first '/' or '?' behind the scheme, which has to be a '/'.
SchemeLength(url) ==
    IF StartsWith(url, Http) THEN Len(Http)
    ELSE IF StartsWith(url, Https) THEN Len(Https)
    ELSE 0

HostEnd(url) ==
    LET from == SchemeLength(url) + 1
        stops == {k \in from..Len(url) : url[k] \in {"/", "?"}}
    IN  IF stops = {} THEN 0
        ELSE CHOOSE k \in stops : \A j \in stops : k <= j

\* A pattern that knows the http scheme alone.
urlPatternHttpOnly(url) ==
    /\ StartsWith(url, Http)
    /\ HostEnd(url) > SchemeLength(url) + 1
    /\ url[HostEnd(url)] = "/"

\* /^((?:http|https):\/\/[^\/?]+)\/(.*)$/
urlPatternMatches(url) ==
    /\ SchemeLength(url) > 0
    /\ HostEnd(url) > SchemeLength(url) + 1
    /\ url[HostEnd(url)] = "/"

\* match[1] and match[2]
urlPatternHost(url) == SubSeq(url, 1, HostEnd(url) - 1)
urlPatternPath(url) == SubSeq(url, HostEnd(url) + 1, Len(url))

NoResult == [offset |-> 0, completions |-> <<>>]

IdleCaller ==
    [pc |-> "idle", url |-> <<>>, hostname |-> <<>>, path |-> <<>>, segs |-> <<>>,
     pathSplit |-> <<>>, projectId |-> <<>>, stackId |-> <<>>, mirrorId |-> <<>>,
     stepUrl |-> <<>>, offset |-> 0, awaiting |-> NoPid, probes |-> <<>>,
     projectError |-> NoError, stackError |-> NoError,
     state |-> "none", interpretation |-> "none",
     inner |-> NoResult, result |-> NoResult, error |-> NoError]

\* url = [hostnames[0]].concat(pathSplit).join('/')
hostnameOnly(hostname, pathSplit) == hostname

stepUrl(hostname, pathSplit) == Join(<<hostname>> \o pathSplit)

\* let offset = path.length - projectId!.length
offsetPastSegment(path, projectId) == Len(path)

completerOffset(path, projectId) == Len(path) - Len(projectId)

\* if (pathSplit.length)
moreThanOneLeft(pathSplit) == Len(pathSplit) > 1

hasDeeperInterpretation(pathSplit) == Len(pathSplit) > 0

\* throw stackError
rethrowProjectError(projectError, stackError) == projectError

rethrowOfStepTwo(projectError, stackError) == stackError

\* getStackInfo(chunkManager, url, Number(projectId), Number(stackId))
stepThreeAsProjectsList(m, ps, url, projectId, stackId) ==
    getProjectsList(m, ps, <<url>>)

stepThreeSwapped(m, ps, url, projectId, stackId) ==
    getStackInfo(m, ps, url, Number(stackId), Number(projectId))

stepThreeProbe(m, ps, url, projectId, stackId) ==
    getStackInfo(m, ps, url, Number(projectId), Number(stackId))

\* match![1].length + 1
outerOffset(host) == Len(host) + 1

\* The caller c awaits the promise got, and has issued one more probe.
Awaiting(c, pc, got) ==
    [c EXCEPT !.pc = pc, !.awaiting = got.pid,
              !.probes = Append(@, [key |-> got.promises[got.pid].key,
                                    pid |-> got.pid,
                                    fresh |-> got.pid \notin DOMAIN promises,
                                    stateAtCall |-> got.promises[got.pid].state])]

Fulfilled(c, interpretation, inner) ==
    [c EXCEPT !.pc = "done", !.state = "fulfilled",
              !.interpretation = interpretation, !.inner = inner,
              !.result = applyCompletionOffset(outerOffset(c.hostname), inner)]

\* A failure that is kept but never hands the invocation over.
leftPending(c, error) == [c EXCEPT !.error = error]

Rejected(c, error) ==
    [c EXCEPT !.pc = "done", !.state = "rejected", !.error = error]

\* volumeCompleter(url): reject an address without a host and a slash, or
\* else start projectStackMirrorCompleter with the step-1 probe.
volumeCompleter(i, url) ==
    /\ callers[i].pc = "idle"
    /\ i = "b" => callers["a"].pc # "idle"
    /\ UNCHANGED pyramidVars
    /\ IF ~urlPatternMatches(url)
       THEN /\ callers' = [callers EXCEPT ![i] =
                   Rejected([@ EXCEPT !.url = url], [kind |-> "null", pid |-> NoPid])]
            /\ UNCHANGED <<memo, promises>>
       ELSE LET hostname  == urlPatternHost(url)
                path      == urlPatternPath(url)
                split     == Split(path)
                projectId == PopLast(split)
                pathSplit == PopRest(split)
                u         == stepUrl(hostname, pathSplit)
                got       == getProjectsList(memo, promises, <<u>>)
            IN  /\ callers' = [callers EXCEPT ![i] =
                       Awaiting([@ EXCEPT !.url = url, !.hostname = hostname,
                                          !.path = path, !.segs = split,
                                          !.pathSplit = pathSplit,
                                          !.projectId = projectId, !.stepUrl = u,
                                          !.offset = completerOffset(path, projectId)],
                                "step1", got)]
                /\ memo' = got.memo
                /\ promises' = got.promises

\* A catch that runs whatever the promise has come to.
catchesAlways(p) == TRUE

\* .catch(projectError => ...) of step 1: it runs when the promise of the
\* projects list is rejected (autoCompleteProject does not throw).
catchesProjectError(p) == p.state = "rejected"

\* The step-1 promise has settled: project completions, or the catch that
\* reinterprets the path one level deeper.
StepOneSettled(i) ==
    LET c == callers[i]
        p == promises[c.awaiting]
    IN  /\ c.pc = "step1"
        /\ p.state # "pending"
        /\ UNCHANGED pyramidVars
        /\ IF ~catchesProjectError(p)
           THEN /\ callers' = [callers EXCEPT ![i] =
                       Fulfilled(c, "project",
                                 autoCompleteProject(c.projectId, c.offset, p.projects))]
                /\ UNCHANGED <<memo, promises>>
           ELSE IF hasDeeperInterpretation(c.pathSplit)
           THEN LET projectId == PopLast(c.pathSplit)
                    pathSplit == PopRest(c.pathSplit)
                    u         == stepUrl(c.hostname, pathSplit)
                    got       == getProjectsList(memo, promises, <<u>>)
                IN  /\ callers' = [callers EXCEPT ![i] =
                           Awaiting([c EXCEPT !.projectError = p.error,
                                              !.stackId = c.projectId,
                                              !.projectId = projectId,
                                              !.pathSplit = pathSplit,
                                              !.stepUrl = u],
                                    "step2", got)]
                    /\ memo' = got.memo
                    /\ promises' = got.promises
           ELSE /\ callers' = [callers EXCEPT ![i] =
                       Rejected([c EXCEPT !.projectError = p.error], p.error)]
                /\ UNCHANGED <<memo, promises>>

\* The step-2 promise has settled: stack completions, or the catch that
\* takes the failure (a rejection, or the throw of autoCompleteStack).
StepTwoSettled(i) ==
    LET c == callers[i]
        p == promises[c.awaiting]
        found == p.state = "fulfilled" /\ ~autoCompleteStackThrows(c.projectId, p.projects)
        stackError == IF p.state = "fulfilled"
                      THEN [kind |-> "notfound", pid |-> c.awaiting]
                      ELSE p.error
    IN  /\ c.pc = "step2"
        /\ p.state # "pending"
        /\ UNCHANGED pyramidVars
        /\ IF found
           THEN /\ callers' = [callers EXCEPT ![i] =
                       Fulfilled(c, "stack",
                                 autoCompleteStack(c.stackId, c.projectId, c.offset,
                                                   p.projects))]
                /\ UNCHANGED <<memo, promises>>
           ELSE IF hasDeeperInterpretation(c.pathSplit)
           THEN LET projectId == PopLast(c.pathSplit)
                    pathSplit == PopRest(c.pathSplit)
                    u         == stepUrl(c.hostname, pathSplit)
                    got       == stepThreeProbe(memo, promises, u, projectId, c.projectId)
                IN  /\ callers' = [callers EXCEPT ![i] =
                           Awaiting([c EXCEPT !.stackError = stackError,
                                              !.mirrorId = c.stackId,
                                              !.stackId = c.projectId,
                                              !.projectId = projectId,
                                              !.pathSplit = pathSplit,
                                              !.stepUrl = u],
                                    "step3", got)]
                    /\ memo' = got.memo
                    /\ promises' = got.promises
           ELSE /\ callers' = [callers EXCEPT ![i] =
                       Rejected([c EXCEPT !.stackError = stackError],
                                rethrowOfStepTwo(c.projectError, stackError))]
                /\ UNCHANGED <<memo, promises>>

\* The step-3 promise has settled: mirror completions, or its rejection,
\* which nothing catches.
StepThreeSettled(i) ==
    LET c == callers[i]
        p == promises[c.awaiting]
    IN  /\ c.pc = "step3"
        /\ p.state # "pending"
        /\ UNCHANGED pyramidVars
        /\ callers' = [callers EXCEPT ![i] =
               IF p.state = "fulfilled"
               THEN Fulfilled(c, "mirror",
                              autoCompleteMirror(c.mirrorId, c.offset, p.stackInfo.mirrors))
               ELSE Rejected(c, p.error)]
        /\ promises' = IF p.state = "fulfilled"
                       THEN [promises EXCEPT ![c.awaiting].stackInfo.mirrors =
                                mirrorsAfterCompletion(@)]
                       ELSE promises
        /\ UNCHANGED memo

\* -------------------------------------------------------- the tile pyramid

\* The extent below which a level needs no coarser level (the 1024 of the
\* automatic zoom levels).
AutoExtent == 1024

RECURSIVE Pow2(_)
Pow2(n) == IF n <= 0 THEN 1 ELSE 2 * Pow2(n - 1)

\* Math.ceil(Math.log2(d / 1024)) for an extent d >= 1: the least k, which
\* may be negative, with d <= 1024 * 2^k.
RECURSIVE LeastLevelAbove(_, _)
LeastLevelAbove(d, k) ==
    IF d <= AutoExtent * Pow2(k) THEN k ELSE LeastLevelAbove(d, k + 1)

RECURSIVE MostHalvingsBelow(_, _)
MostHalvingsBelow(d, m) ==
    IF d * Pow2(m + 1) <= AutoExtent THEN MostHalvingsBelow(d, m + 1) ELSE m

CeilLog2OfRatio(d) ==
    IF d <= AutoExtent THEN 0 - MostHalvingsBelow(d, 0) ELSE LeastLevelAbove(d, 1)

Max(a, b) == IF a >= b THEN a ELSE b

Min(a, b) == IF a <= b THEN a ELSE b

\* Automatic levels taken from the smaller of the two extents.
autoNumLevelsOfSmaller(dimension) ==
    Min(CeilLog2OfRatio(dimension[1]), CeilLog2OfRatio(dimension[2]))

\* The ceiling of the larger logarithm is the larger of the two ceilings.
autoNumLevels(dimension) ==
    Max(CeilLog2OfRatio(dimension[1]), CeilLog2OfRatio(dimension[2]))

numLevelsOf(stackInfo) ==
    IF stackInfo.zoomLevels < 0 THEN autoNumLevels(stackInfo.dimension)
    ELSE stackInfo.zoomLevels

\* for (let i = 0; i < 2; ++i) voxelSize[i] = voxelSize[i] * Math.pow(2, level)
scaledVoxelSize(resolution, level) ==
    [i \in 1..3 |-> IF i <= 2 THEN resolution[i] * Pow2(level) ELSE resolution[i]]

\* A chunk source whose voxel bounds are moved by the stack's translation.
levelSourceTranslated(stackInfo, mirror, level) ==
    [spec |-> [voxelSize |-> scaledVoxelSize(stackInfo.resolution, level),
               chunkDataSize |-> <<mirror.tileWidth, mirror.tileHeight, 1>>,
               numChannels |-> 1,
               dataType |-> "UINT8",
               lowerVoxelBound |-> stackInfo.translation,
               upperVoxelBound |->
                  [i \in 1..3 |-> stackInfo.translation[i] + stackInfo.dimension[i]]],
     parameters |-> [sourceBaseUrls |-> mirror.url,
                     encoding |-> "JPEG",
                     zoomLevel |-> level,
                     tileHeight |-> mirror.tileHeight,
                     tileWidth |-> mirror.tileWidth,
                     tileSourceType |-> mirror.tileSourceType]]

\* The chunk source of one level: the specification handed to
\* VolumeChunkSpecification.make and the parameters handed to getChunkSource.
\* The bounds are the zero vector and the dimension: the translation is not
\* applied.
levelSource(stackInfo, mirror, level) ==
    [spec |-> [voxelSize |-> scaledVoxelSize(stackInfo.resolution, level),
               chunkDataSize |-> <<mirror.tileWidth, mirror.tileHeight, 1>>,
               numChannels |-> 1,
               dataType |-> "UINT8",
               lowerVoxelBound |-> <<0, 0, 0>>,
               upperVoxelBound |-> stackInfo.dimension],
     parameters |-> [sourceBaseUrls |-> mirror.url,
                     encoding |-> "JPEG",
                     zoomLevel |-> level,
                     tileHeight |-> mirror.tileHeight,
                     tileWidth |-> mirror.tileWidth,
                     tileSourceType |-> mirror.tileSourceType]]

\* A level body that scales the stored resolution in place.
levelBodyAliasing(stackInfo, mirror, level) ==
    [source |-> levelSource(stackInfo, mirror, level),
     stackInfo |-> [stackInfo EXCEPT
                       !.resolution = scaledVoxelSize(stackInfo.resolution, level)]]

\* The body of the level loop: voxelSize is a clone, so the stored stackInfo
\* is as it was.
levelBody(stackInfo, mirror, level) ==
    [source |-> levelSource(stackInfo, mirror, level), stackInfo |-> stackInfo]

\* A loop that stops one level early.
loopStopsEarly(level, numLevels) == level < numLevels

\* level <= numLevels
loopContinues(level, numLevels) == level <= numLevels

\* for (let level = 0; level <= numLevels; level++) { ... sources.push([source]) }
RECURSIVE levelLoop(_, _, _, _, _)
levelLoop(level, numLevels, stackInfo, mirror, acc) ==
    IF loopContinues(level, numLevels)
    THEN LET body == levelBody(stackInfo, mirror, level)
         IN  levelLoop(level + 1, numLevels, body.stackInfo, mirror,
                       Append(acc, <<body.source>>))
    ELSE [groups |-> acc, stackInfo |-> stackInfo]

NoSources == [state |-> "none", groups |-> <<>>, created |-> 0]

\* An unknown mirror answered with an empty list of levels.
mirrorNotFoundIgnored == [state |-> "returned", groups |-> <<>>, created |-> 0]

\* throw new Error(`Specified mirror ... is not available`), ahead of the
\* level loop: nothing has been created.
mirrorNotFound == [state |-> "thrown", groups |-> <<>>, created |-> 0]

\* MultiscaleTileSource.getSources: throw when the mirror is unknown, or else
\* one group of one chunk source per level.
getSources ==
    /\ IF ~MapHas(volume.stackInfo.mirrors, volume.mirrorId)
       THEN /\ sources' = mirrorNotFound
            /\ UNCHANGED volume
       ELSE LET mirror == MapGet(volume.stackInfo.mirrors, volume.mirrorId)
                out == levelLoop(0, numLevelsOf(volume.stackInfo), volume.stackInfo,
                                 mirror, <<>>)
            IN  /\ sources' = [state |-> "returned", groups |-> out.groups,
                               created |-> Len(out.groups)]
                /\ volume' = [volume EXCEPT !.stackInfo = out.stackInfo]
    /\ UNCHANGED completerVars
    /\ UNCHANGED <<opened, calls>>

\* The stacks a volume is built on: the bodies a server can send for them.
ZoomChoices == (-1)..MaxZoom
DimensionChoices ==
    {<<4096, 2048, 10>>, <<512, 300, 5>>, <<1024, 1024, 1>>, <<1025, 100, 3>>,
     <<600, 700, 2>>}
TranslationChoices == {<<0, 0, 0>>, <<5, 6, 7>>}
ResolutionChoices == {<<4, 4, 40>>, <<1, 2, 3>>}
MirrorChoices == {<<RawMirror(1, 3), RawMirror(2, 1), RawMirror(12, 2)>>, <<RawMirror(2, 1)>>, <<>>}
MirrorIdChoices == {<<"1">>, <<"2">>}

StackInfoBodies ==
    {[wellFormed |-> TRUE, dimension |-> d, translation |-> t, resolution |-> r,
      num_zoom_levels |-> z, sid |-> 1, mirrors |-> ms] :
        d \in DimensionChoices, t \in TranslationChoices, r \in ResolutionChoices,
        z \in ZoomChoices, ms \in MirrorChoices}

\* new MultiscaleTileSource(chunkManager, url, stackInfo, mirror)
MultiscaleTileSource(body, mirrorId) ==
    [raw |-> body, stackInfo |-> parseStackInfo(body), mirrorId |-> mirrorId]

NoVolume == MultiscaleTileSource(GoodStackInfoBody, <<"1">>)

\* ---------------------------------------------------------------- getVolume

\* Number(s) of JavaScript on a path segment: NaN, here -1, for a segment
\* that is not a string of decimal digits.
NaN == 0 - 1

NumberOfSegment(s) ==
    IF \A k \in 1..Len(s) : \E d \in 1..Len(Digits) : Digits[d] = s[k]
    THEN Number(s) ELSE NaN

SlashesFrom(path, k) == {j \in k..Len(path) : path[j] = Slash}

\* /^((?:http|https):\/\/[^?]+)\/(.*)\/(.*)\/(.*)$/ : the places where
\* group 1 can end, which are followed by a slash and have at least two more
\* slashes behind it; group 1 has one character or more behind the scheme,
\* none of them a '?'.
ServerEnds(path) ==
    {n \in (SchemeLength(path) + 1)..(Len(path) - 1) :
        /\ SchemeLength(path) > 0
        /\ \A j \in (SchemeLength(path) + 1)..n : path[j] # "?"
        /\ path[n + 1] = Slash
        /\ Cardinality(SlashesFrom(path, n + 1)) >= 3}

completePatternMatches(path) == ServerEnds(path) # {}

\* A group 1 that ends at the first place it can.
serverEndLazy(path) ==
    CHOOSE n \in ServerEnds(path) : \A m \in ServerEnds(path) : n <= m

\* [^?]+ is greedy: group 1 ends at the last place it can.
serverEnd(path) ==
    CHOOSE n \in ServerEnds(path) : \A m \in ServerEnds(path) : m <= n

LastSlash(path) ==
    CHOOSE k \in SlashesFrom(path, 1) : \A j \in SlashesFrom(path, 1) : j <= k

SlashBeforeLast(path) ==
    CHOOSE k \in SlashesFrom(path, 1) \ {LastSlash(path)} :
       \A j \in SlashesFrom(path, 1) \ {LastSlash(path)} : j <= k

\* match[1] .. match[4]: each (.*) is greedy, so the last two groups are
\* what lies behind the last two slashes.
completePatternGroups(path) ==
    [url     |-> SubSeq(path, 1, serverEnd(path)),
     project |-> SubSeq(path, serverEnd(path) + 2, SlashBeforeLast(path) - 1),
     stack   |-> SubSeq(path, SlashBeforeLast(path) + 1, LastSlash(path) - 1),
     mirror  |-> SubSeq(path, LastSlash(path) + 1, Len(path))]

getVolumeKey(url, path) ==
    [type |-> "catmaid:MultiscaleVolumeChunkSource", url |-> url, path |-> path]

\* The promise of getStackInfo(...).then(stackInfo => new
\* MultiscaleTileSource(chunkManager, url, stackInfo, mirror)): it follows the
\* stack info promise `from`.
PendingVolume(key, from, mirror) ==
    [key |-> key, state |-> "pending", error |-> NoError, projects |-> <<>>,
     stackInfo |-> NoStackInfo, response |-> "none", from |-> from,
     mirror |-> mirror]

NoKey == [type |-> "none"]

\* A getVolume call: the groups of the match, the promise returned, the key
\* getStackInfo was called with, and the keys the call has made promises and
\* memo entries for.
IdleOpen ==
    [pc |-> "idle", path |-> <<>>, url |-> <<>>, project |-> <<>>, stack |-> <<>>,
     mirror |-> <<>>, pid |-> NoPid, stackInfoKey |-> NoKey, requested |-> {},
     memoized |-> {}]

\* getVolume(chunkManager, path): throw on a path the pattern does not match,
\* or else the memoized promise of the volume, made on the first call from
\* the stack info of (url, Number(project), Number(stack)).
getVolume(i, path) ==
    /\ opened[i].pc = "idle"
    /\ i = "b" => opened["a"].pc # "idle"
    /\ UNCHANGED <<callers, volume, sources, calls>>
    /\ IF ~completePatternMatches(path)
       THEN /\ UNCHANGED <<memo, promises>>
            /\ opened' = [opened EXCEPT ![i] =
                   [@ EXCEPT !.pc = "thrown", !.path = path,
                       !.requested = {q[1] : q \in DOMAIN promises' \ DOMAIN promises},
                       !.memoized = {e.key : e \in memo' \ memo}]]
       ELSE LET g     == completePatternGroups(path)
                key   == getVolumeKey(g.url, path)
                inner == getStackInfo(memo, promises, g.url,
                                      NumberOfSegment(g.project),
                                      NumberOfSegment(g.stack))
                vpid  == NewPid(inner.promises, key)
                hit   == MemoHas(memo, key)
                pid   == IF hit THEN (CHOOSE e \in memo : e.key = key).pid ELSE vpid
            IN  /\ memo' = IF hit THEN memo
                           ELSE inner.memo \cup {[key |-> key, pid |-> vpid]}
                /\ promises' = IF hit THEN promises
                               ELSE inner.promises
                                       @@ (vpid :> PendingVolume(key, inner.pid, g.mirror))
                /\ opened' = [opened EXCEPT ![i] =
                       [pc |-> "returned", path |-> path, url |-> g.url,
                        project |-> g.project, stack |-> g.stack,
                        mirror |-> g.mirror, pid |-> pid,
                        stackInfoKey |-> IF hit THEN NoKey
                                         ELSE inner.promises[inner.pid].key,
                        requested |-> {q[1] : q \in DOMAIN promises' \ DOMAIN promises},
                        memoized |-> {e.key : e \in memo' \ memo}]]

\* A continuation that looks the mirror up before it makes the volume.
volumeOfKnownMirror(promise, stackInfo) ==
    IF MapHas(stackInfo.mirrors, promise.mirror)
    THEN [promise EXCEPT !.state = "fulfilled", !.stackInfo = stackInfo]
    ELSE [promise EXCEPT !.state = "rejected",
                         !.error = [kind |-> "mirror", pid |-> promise.from]]

\* new MultiscaleTileSource(chunkManager, url, stackInfo, mirror): the
\* constructor throws on an undefined stackInfo only, and stores the mirror
\* segment as it is.
volumeOf(promise, stackInfo) ==
    [promise EXCEPT !.state = "fulfilled", !.stackInfo = stackInfo]

\* The continuation of a volume promise, once the stack info it follows has
\* settled: the volume of that stack info and the mirror of the path, or the
\* failure of the stack info.
VolumeSettled(pid) ==
    /\ pid \in DOMAIN promises
    /\ ~HasTransport(promises[pid].key)
    /\ promises[pid].state = "pending"
    /\ promises[promises[pid].from].state # "pending"
    /\ LET from == promises[promises[pid].from]
           settled == IF from.state = "fulfilled"
                      THEN volumeOf(promises[pid], from.stackInfo)
                      ELSE [promises[pid] EXCEPT !.state = "rejected",
                                                 !.error = from.error]
       IN  /\ promises' = [promises EXCEPT ![pid] = settled]
           /\ memo' = memoAfterSettle(memo, pid, settled)
    /\ UNCHANGED <<callers, volume, sources, opened, calls>>

\* getSources on the volume a getVolume call has returned, once its promise
\* is fulfilled: the volume holds the stack info of the promise and the
\* mirror segment of the path.
volumeGetSources(i) ==
    /\ opened[i].pc = "returned"
    /\ promises[opened[i].pid].state = "fulfilled"
    /\ LET promise == promises[opened[i].pid]
           this == [raw |-> GoodStackInfoBody, stackInfo |-> promise.stackInfo,
                    mirrorId |-> promise.mirror]
       IN  IF ~MapHas(this.stackInfo.mirrors, this.mirrorId)
           THEN /\ sources' = mirrorNotFound
                /\ volume' = this
           ELSE LET mirror == MapGet(this.stackInfo.mirrors, this.mirrorId)
                    out == levelLoop(0, numLevelsOf(this.stackInfo), this.stackInfo,
                                     mirror, <<>>)
                IN  /\ sources' = [state |-> "returned", groups |-> out.groups,
                                   created |-> Len(out.groups)]
                    /\ volume' = [this EXCEPT !.stackInfo = out.stackInfo]
    /\ UNCHANGED completerVars
    /\ UNCHANGED <<opened, calls>>

\* The paths getVolume is called with: a server and up to MaxVolumeSegs
\* segments behind it, with a '?' in places, and paths without a scheme or
\* without a server.
VolumeSegLists ==
    UNION {[1..k -> CompleteSegments] : k \in 1..3}
    \cup {[j \in 1..(k - 3) |-> ServerSegment] \o l :
             k \in 4..MaxVolumeSegs, l \in [1..3 -> CompleteSegments]}

VolumePaths ==
    {Http \o Host \o <<Slash>> \o Join(l) : l \in VolumeSegLists}
    \cup {Https \o Host \o <<Slash, "1", Slash, "2", Slash, "1">>,
          Host \o <<Slash, "1", Slash, "2", Slash, "1">>,
          Http \o <<Slash, "1", Slash, "2", Slash, "1">>,
          Http \o Host \o <<Slash, Slash, Slash>>,
          Http \o Host \o <<"?", Slash, "1", Slash, "2", Slash, "1">>,
          Http \o Host \o <<Slash, "1", Slash, "2", Slash, "1", "?">>,
          Http \o Host \o <<Slash, "1", "?", Slash, "1", Slash, "2", Slash, "1">>}

\* ------------------------------------------------------------- direct calls

NoCall ==
    [fn |-> "none", pc |-> "none", partial |-> <<>>, mirrors |-> <<>>,
     body |-> EmptyProjectsBody, candidates |-> <<>>, result |-> <<>>,
     error |-> "none"]

\* The id of the k-th mirror of a stack: 1, 2, 12, 13, ...
MirrorIdAt(k) == IF k <= 2 THEN k ELSE 9 + k

\* The mirror maps parseStackInfo makes of up to MaxMirrors mirrors, whose
\* positions are in any order and may be equal.
MirrorMaps ==
    {ReduceMirrors([k \in 1..n |-> parseStackMirror(RawMirror(MirrorIdAt(k), pos[k]))],
                   <<>>) :
        n \in 0..MaxMirrors, pos \in [1..MaxMirrors -> 1..MaxMirrors]}

MirrorPartials == {<<>>, <<"1">>, <<"2">>}

\* The bodies of a projects list: an array of up to MaxProjects projects,
\* each with its stacks, with objects among them that a verifier refuses,
\* and a body that is not an array.
RawStack(id, wellFormed) ==
    [wellFormed |-> wellFormed, id |-> id,
     title |-> <<"S">> \o NumToString(id), comment |-> <<"c">> \o NumToString(id)]

RawStackLists ==
    {<<>>, <<RawStack(2, TRUE)>>, <<RawStack(2, TRUE), RawStack(12, TRUE)>>,
     <<RawStack(12, TRUE), RawStack(2, TRUE)>>, <<RawStack(2, TRUE), RawStack(2, TRUE)>>,
     <<RawStack(2, FALSE)>>}

RawProjects ==
    {[wellFormed |-> w, id |-> id, title |-> <<"P">> \o NumToString(id),
      stacks |-> stacks] :
        w \in BOOLEAN, id \in {1, 12}, stacks \in RawStackLists}

ProjectsBodies ==
    {[isArray |-> TRUE, items |-> items] :
        items \in UNION {[1..n -> RawProjects] : n \in 0..MaxProjects}}
    \cup {[isArray |-> FALSE, items |-> <<>>]}

\* autoCompleteMirror(mirrorIdPartial, 0, mirrorsList), called directly.
autoCompleteMirrorCall ==
    /\ calls.fn = "autoCompleteMirror" /\ calls.pc = "called"
    /\ calls' = [calls EXCEPT
                    !.pc = "returned",
                    !.candidates = mirrorCandidates(calls.mirrors),
                    !.result = autoCompleteMirror(calls.partial, 0, calls.mirrors)]
    /\ UNCHANGED <<memo, promises, callers, volume, sources, opened>>

\* parseProjectsList(obj), called directly.
parseProjectsListCall ==
    /\ calls.fn = "parseProjectsList" /\ calls.pc = "called"
    /\ calls' = IF parseProjectsListThrows(calls.body) # "none"
                THEN [calls EXCEPT !.pc = "thrown",
                                   !.error = parseProjectsListThrows(calls.body)]
                ELSE [calls EXCEPT !.pc = "returned",
                                   !.result = parseProjectsList(calls.body)]
    /\ UNCHANGED <<memo, promises, callers, volume, sources, opened>>

Init ==
    /\ memo = {}
    /\ promises = <<>>
    /\ callers = [i \in Callers |-> IdleCaller]
    /\ volume = NoVolume
    /\ sources = NoSources
    /\ opened = [i \in Callers |-> IdleOpen]
    /\ calls = NoCall

Next ==
    \/ \E i \in Callers, url \in Urls : volumeCompleter(i, url)
    \/ \E i \in Callers : StepOneSettled(i)
    \/ \E i \in Callers : StepTwoSettled(i)
    \/ \E i \in Callers : StepThreeSettled(i)
    \/ \E pid \in DOMAIN promises : TransportRespond(pid)

Spec == Init /\ [][Next]_vars

\* One invocation alone, on paths of more segments.
NextDeep ==
    \/ \E url \in DeepUrls : volumeCompleter("a", url)
    \/ StepOneSettled("a")
    \/ StepTwoSettled("a")
    \/ StepThreeSettled("a")
    \/ \E pid \in DOMAIN promises : TransportRespond(pid)

SpecDeep == Init /\ [][NextDeep]_vars

\* Two invocations under the scheduling of the event loop: every transport
\* request comes back, with a response or a failure, and the continuation
\* of a settled promise is run.
LiveUrls ==
    {Http \o Host,
     Http \o Host \o <<Slash, "1", Slash>>,
     Http \o Host \o <<Slash, "1", Slash, "2", Slash, "1">>}

NextLive ==
    \/ \E i \in Callers, url \in LiveUrls : volumeCompleter(i, url)
    \/ \E i \in Callers : StepOneSettled(i)
    \/ \E i \in Callers : StepTwoSettled(i)
    \/ \E i \in Callers : StepThreeSettled(i)
    \/ \E pid \in DOMAIN promises : TransportRespond(pid)

Fairness ==
    /\ WF_vars(\E pid \in DOMAIN promises : TransportRespond(pid))
    /\ \A i \in Callers :
          /\ WF_vars(StepOneSettled(i))
          /\ WF_vars(StepTwoSettled(i))
          /\ WF_vars(StepThreeSettled(i))

SpecLive == Init /\ [][NextLive]_vars /\ Fairness

\* getSources on a volume of any of the stacks.
InitPyramid ==
    /\ memo = {}
    /\ promises = <<>>
    /\ callers = [i \in Callers |-> IdleCaller]
    /\ \E body \in StackInfoBodies, mirrorId \in MirrorIdChoices :
          volume = MultiscaleTileSource(body, mirrorId)
    /\ sources = NoSources
    /\ opened = [i \in Callers |-> IdleOpen]
    /\ calls = NoCall

NextPyramid == getSources

SpecPyramid == InitPyramid /\ [][NextPyramid]_vars

\* Two getVolume calls and the requests behind them.
NextVolume ==
    \/ \E i \in Callers, path \in VolumePaths : getVolume(i, path)
    \/ \E pid \in DOMAIN promises : TransportRespond(pid)
    \/ \E pid \in DOMAIN promises : VolumeSettled(pid)
    \/ \E i \in Callers : volumeGetSources(i)

SpecVolume == Init /\ [][NextVolume]_vars

\* One direct call of autoCompleteMirror or of parseProjectsList, on any of
\* the mirror maps and of the bodies.
InitCalls ==
    /\ memo = {}
    /\ promises = <<>>
    /\ callers = [i \in Callers |-> IdleCaller]
    /\ volume = NoVolume
    /\ sources = NoSources
    /\ opened = [i \in Callers |-> IdleOpen]
    /\ \/ \E partial \in MirrorPartials, mirrors \in MirrorMaps :
             calls = [NoCall EXCEPT !.fn = "autoCompleteMirror", !.pc = "called",
                                    !.partial = partial, !.mirrors = mirrors]
       \/ \E body \in ProjectsBodies :
             calls = [NoCall EXCEPT !.fn = "parseProjectsList", !.pc = "called",
                                    !.body = body]

NextCalls ==
    \/ autoCompleteMirrorCall
    \/ parseProjectsListCall

SpecCalls == InitCalls /\ [][NextCalls]_vars

\* ------------------------------------------------------------------- claims

\* The segments of the path an invocation was given (path.split('/') as
\* first computed), and its k-th probe.
SegsOf(c) == c.segs
LastSeg(c) == SegsOf(c)[Len(SegsOf(c))]
SegFromEnd(c, k) == SegsOf(c)[Len(SegsOf(c)) - k]
HostPlus(c, k) == Join(<<c.hostname>> \o SubSeq(SegsOf(c), 1, Len(SegsOf(c)) - k))
Probed(c, k) == promises[c.probes[k].pid]
HasRun(c) == c.pc # "idle" /\ Len(c.probes) >= 1

\* Step 2 of an invocation has failed: its promise was rejected, or the list
\* arrived without the project named by the second-to-last segment.
StepTwoFailed(c) ==
    \/ Probed(c, 2).state = "rejected"
    \/ Probed(c, 2).state = "fulfilled" /\ ~MapHas(Probed(c, 2).projects, SegFromEnd(c, 1))

\* C1: the first probe of every invocation is getProjectsList on the hostname
\* joined with all segments but the last; once that probe has succeeded the
\* invocation issues no other probe and resolves with the project
\* completions for the last segment.
C1_StepOneProbe ==
    \A i \in Callers :
       LET c == callers[i]
       IN  HasRun(c) =>
             /\ c.probes[1].key = getProjectsListKey(<<HostPlus(c, 1)>>)
             /\ Probed(c, 1).state = "fulfilled" =>
                   /\ Len(c.probes) = 1
                   /\ c.pc = "done" =>
                         /\ c.state = "fulfilled"
                         /\ c.interpretation = "project"
                         /\ c.inner = autoCompleteProject(LastSeg(c),
                                          Len(c.path) - Len(LastSeg(c)),
                                          Probed(c, 1).projects)

\* A two-segment path resolved at step 1 with some completion to show.
C1_Witness ==
    \E i \in Callers :
       /\ callers[i].pc = "done"
       /\ callers[i].interpretation = "project"
       /\ Len(SegsOf(callers[i])) = 2
       /\ Len(callers[i].inner.completions) = 1

\* C2: once the step-1 probe of a path of two or more segments has failed,
\* the second probe is getProjectsList on the hostname joined with all
\* segments but the last two; when that list arrives and holds the project
\* named by the second-to-last segment, no other probe is issued and the
\* invocation resolves with that project's stack completions for the last
\* segment.
C2_StepTwoProbe ==
    \A i \in Callers :
       LET c == callers[i]
       IN  (/\ HasRun(c)
            /\ Len(SegsOf(c)) >= 2
            /\ c.pc # "step1"
            /\ Probed(c, 1).state = "rejected") =>
             /\ Len(c.probes) >= 2
             /\ c.probes[2].key = getProjectsListKey(<<HostPlus(c, 2)>>)
             /\ (Probed(c, 2).state = "fulfilled" /\ ~StepTwoFailed(c)) =>
                   /\ Len(c.probes) = 2
                   /\ c.pc = "done" =>
                         /\ c.state = "fulfilled"
                         /\ c.interpretation = "stack"
                         /\ c.inner = autoCompleteStack(LastSeg(c), SegFromEnd(c, 1),
                                          Len(c.path) - Len(LastSeg(c)),
                                          Probed(c, 2).projects)

\* A path resolved at step 2 after a transport failure of step 1.
C2_Witness ==
    \E i \in Callers :
       /\ callers[i].pc = "done"
       /\ callers[i].interpretation = "stack"
       /\ callers[i].projectError.kind = "transport"
       /\ Len(callers[i].inner.completions) = 1

\* C3: for a path of three or more segments, once step 2 has failed in any
\* way (rejection by transport or parser, or a list without the project) the
\* third probe is getStackInfo on the hostname joined with all segments but
\* the last three, with the numbers of the third-to-last and second-to-last
\* segments as project and stack; when it succeeds the invocation resolves
\* with the mirror completions for the last segment.
C3_StepThreeProbe ==
    \A i \in Callers :
       LET c == callers[i]
       IN  (/\ HasRun(c)
            /\ Len(SegsOf(c)) >= 3
            /\ c.pc \notin {"step1", "step2"}
            /\ Probed(c, 1).state = "rejected"
            /\ StepTwoFailed(c)) =>
             /\ Len(c.probes) = 3
             /\ c.probes[3].key = getStackInfoKey(HostPlus(c, 3),
                                      Number(SegFromEnd(c, 2)), Number(SegFromEnd(c, 1)))
             /\ (Probed(c, 3).state = "fulfilled" /\ c.pc = "done") =>
                   /\ c.state = "fulfilled"
                   /\ c.interpretation = "mirror"
                   /\ c.inner = autoCompleteMirror(LastSeg(c),
                                    Len(c.path) - Len(LastSeg(c)),
                                    Probed(c, 3).stackInfo.mirrors)

\* Two invocations resolved at step 3, one after a list that lacked the
\* project and one after a rejected step-2 promise.
C3_Witness ==
    /\ \A i \in Callers : callers[i].pc = "done" /\ callers[i].interpretation = "mirror"
    /\ callers["a"].stackError.kind = "notfound"
    /\ callers["b"].stackError.kind \in {"transport", "parse"}
    /\ SegFromEnd(callers["a"], 2) # SegFromEnd(callers["a"], 1)

\* The deepest interpretation that applies to the path of an invocation has
\* been tried and has failed.
DeepestFailed(c) ==
    LET n == Len(SegsOf(c))
    IN  \/ n = 1 /\ Probed(c, 1).state = "rejected"
        \/ n = 2 /\ Len(c.probes) = 2 /\ StepTwoFailed(c)
        \/ n >= 3 /\ Len(c.probes) = 3 /\ Probed(c, 3).state = "rejected"

\* C4: an invocation that has finished is rejected exactly when its deepest
\* applicable interpretation has failed, and then with that failure and no
\* completions: the step-1 failure for one segment, the step-2 failure for
\* two segments, the getStackInfo failure for three or more.
C4_DeepestFailure ==
    \A i \in Callers :
       LET c == callers[i]
           n == Len(SegsOf(c))
       IN  (HasRun(c) /\ c.pc = "done") =>
           /\ c.state = "rejected" <=> DeepestFailed(c)
           /\ c.state = "rejected" =>
             /\ c.inner = NoResult /\ c.result = NoResult
             /\ n = 1 => Len(c.probes) = 1 /\ c.error = Probed(c, 1).error
             /\ n = 2 =>
                   /\ Len(c.probes) = 2
                   /\ Probed(c, 1).state = "rejected"
                   /\ StepTwoFailed(c)
                   /\ c.error = (IF Probed(c, 2).state = "rejected"
                                 THEN Probed(c, 2).error
                                 ELSE [kind |-> "notfound", pid |-> c.probes[2].pid])
             /\ n >= 3 =>
                   /\ Len(c.probes) = 3
                   /\ Probed(c, 3).state = "rejected"
                   /\ c.error = Probed(c, 3).error

\* A two-segment path and a three-segment path, both rejected.
C4_Witness ==
    /\ \A i \in Callers : callers[i].pc = "done" /\ callers[i].state = "rejected"
    /\ Len(SegsOf(callers["a"])) = 2 /\ Len(callers["a"].probes) = 2
    /\ Len(SegsOf(callers["b"])) = 3 /\ Len(callers["b"].probes) = 3

ProbeOrder ==
    <<"catmaid:getProjectsList", "catmaid:getProjectsList", "catmaid:getStackInfo">>

\* C5: an invocation issues at most three probes, a projects list, a projects
\* list and a stack info in that order, whatever the number of segments, and
\* once the stack-info probe has failed it is rejected without another probe.
C5_ThreeDepths ==
    LET c == callers["a"]
    IN  /\ Len(c.probes) <= Len(ProbeOrder)
        /\ \A k \in 1..Len(c.probes) : c.probes[k].key.type = ProbeOrder[k]
        /\ (Len(c.probes) = Len(ProbeOrder) /\ c.pc = "done"
                /\ Probed(c, Len(ProbeOrder)).state = "rejected") =>
              c.state = "rejected"

\* A path of five segments whose three probes all failed.
C5_Witness ==
    /\ callers["a"].pc = "done"
    /\ callers["a"].state = "rejected"
    /\ Len(SegsOf(callers["a"])) = MaxDeepSegs
    /\ Len(callers["a"].probes) = Len(ProbeOrder)

\* C6: a key never has more than one promise that is in flight or fulfilled,
\* that promise is the one the memo holds, and so all calls for the key made
\* while it is in flight or after it succeeded are served by one transport
\* request and one result.
C6_Coalescing ==
    /\ \A p, q \in DOMAIN promises :
          (p[1] = q[1] /\ promises[p].state # "rejected"
                       /\ promises[q].state # "rejected") => p = q
    /\ \A p \in DOMAIN promises :
          promises[p].state # "rejected" => [key |-> p[1], pid |-> p] \in memo
    /\ \A i, j \in Callers :
          \A k \in 1..Len(callers[i].probes), l \in 1..Len(callers[j].probes) :
             LET x == callers[i].probes[k]
                 y == callers[j].probes[l]
             IN  (x.key = y.key /\ promises[x.pid].state # "rejected"
                                /\ promises[y.pid].state # "rejected") => x.pid = y.pid

\* Two invocations served by the same stack-info request, the second one
\* joining it while it was in flight.
C6_Witness ==
    /\ Len(callers["a"].probes) = 3 /\ Len(callers["b"].probes) = 3
    /\ callers["a"].probes[3].pid = callers["b"].probes[3].pid
    /\ \E i, j \in Callers :
          /\ callers[i].probes[3].fresh
          /\ ~callers[j].probes[3].fresh /\ callers[j].probes[3].stateAtCall = "pending"
    /\ \A i \in Callers : callers[i].interpretation = "mirror"

\* C7: a request that came back with a transport failure or a body the
\* parser refuses leaves a rejected promise that the memo does not hold, no
\* call is ever served by a promise that had already failed, and the memo
\* holds no failed promise.
C7_FailuresNotCached ==
    /\ \A p \in DOMAIN promises :
          promises[p].response \in {"transport", "parse"} =>
             /\ promises[p].state = "rejected"
             /\ \A e \in memo : e.pid # p
    /\ \A e \in memo : promises[e.pid].state # "rejected"
    /\ \A i \in Callers : \A k \in 1..Len(callers[i].probes) :
          callers[i].probes[k].stateAtCall # "rejected"

\* A second request for a key whose first request failed, which succeeded.
C7_Witness ==
    \E p, q \in DOMAIN promises :
       /\ p[1] = q[1] /\ p[2] = 1 /\ q[2] = 2
       /\ promises[p].response = "parse"
       /\ promises[q].state = "fulfilled"
       /\ \E i \in Callers : \E k \in 1..Len(callers[i].probes) :
             callers[i].probes[k].pid = q /\ callers[i].probes[k].fresh

\* C8: whichever interpretation produced the completions, the offset of
\* projectStackMirrorCompleter is the length of the path less the length of
\* its last segment, and volumeCompleter reports that plus the length of the
\* scheme and host plus one, which is the length of the address less the
\* length of its last segment.
C8_Offset ==
    \A i \in Callers :
       LET c == callers[i]
       IN  (c.pc = "done" /\ c.state = "fulfilled") =>
             /\ c.inner.offset = Len(c.path) - Len(LastSeg(c))
             /\ c.result.offset = c.inner.offset + Len(c.hostname) + 1
             /\ c.result.offset = Len(c.url) - Len(LastSeg(c))
             /\ c.result.completions = c.inner.completions

\* Mirror completions and stack completions for a last segment of one
\* character.
C8_Witness ==
    /\ callers["a"].pc = "done" /\ callers["a"].interpretation = "mirror"
    /\ callers["b"].pc = "done" /\ callers["b"].interpretation = "stack"
    /\ \A i \in Callers : Len(LastSeg(callers[i])) = 1 /\ callers[i].inner.offset > 0

\* C9: for a stack whose stored zoomLevels is N >= 0 and a mirror that
\* exists, getSources returns N + 1 groups; the group of index L (from 0)
\* holds one chunk source, whose zoomLevel is L and whose URL, tile size and
\* tile source type are those of the mirror asked for.
C9_OneGroupPerLevel ==
    (sources.state # "none" /\ volume.raw.num_zoom_levels >= 0
        /\ \E k \in 1..Len(volume.raw.mirrors) :
              NumToString(volume.raw.mirrors[k].id) = volume.mirrorId) =>
       LET m == volume.raw.mirrors[CHOOSE k \in 1..Len(volume.raw.mirrors) :
                     NumToString(volume.raw.mirrors[k].id) = volume.mirrorId]
       IN  /\ sources.state = "returned"
           /\ Len(sources.groups) = volume.raw.num_zoom_levels + 1
           /\ sources.created = volume.raw.num_zoom_levels + 1
           /\ \A k \in 1..Len(sources.groups) :
                 /\ Len(sources.groups[k]) = 1
                 /\ sources.groups[k][1].parameters =
                       [sourceBaseUrls |-> m.image_base, encoding |-> "JPEG",
                        zoomLevel |-> k - 1, tileHeight |-> m.tile_height,
                        tileWidth |-> m.tile_width,
                        tileSourceType |-> m.tile_source_type]

\* Three groups for a stack of zoomLevels 2 and its second mirror.
C9_Witness ==
    /\ sources.state = "returned"
    /\ volume.raw.num_zoom_levels = 2
    /\ Len(sources.groups) = 3
    /\ volume.mirrorId = <<"2">> /\ Len(volume.raw.mirrors) = 3

\* C10: at every level L that getSources emits, voxelSize x and y are the
\* base resolution x and y times 2^L and voxelSize z is the base resolution
\* z, so level 0 has the base resolution; the stored resolution of the stack
\* is what it was before the call.
C10_VoxelSize ==
    sources.state = "returned" =>
       /\ \A k \in 1..Len(sources.groups) :
             sources.groups[k][1].spec.voxelSize =
                <<volume.raw.resolution[1] * (2 ^ (k - 1)),
                  volume.raw.resolution[2] * (2 ^ (k - 1)),
                  volume.raw.resolution[3]>>
       /\ Len(sources.groups) >= 1 =>
             sources.groups[1][1].spec.voxelSize = volume.raw.resolution
       /\ volume.stackInfo.resolution = volume.raw.resolution

\* Level 1 of a stack of resolution (4, 4, 40) has voxels of (8, 8, 40).
C10_Witness ==
    /\ sources.state = "returned"
    /\ volume.raw.resolution = <<4, 4, 40>>
    /\ volume.raw.num_zoom_levels = 2
    /\ Len(sources.groups) = 3
    /\ sources.groups[2][1].spec.voxelSize = <<8, 8, 40>>
    /\ sources.groups[3][1].spec.voxelSize = <<16, 16, 40>>

\* The mirror of the stack's body a volume was built for, when there is one.
HasRawMirror ==
    \E k \in 1..Len(volume.raw.mirrors) :
       NumToString(volume.raw.mirrors[k].id) = volume.mirrorId

RawMirrorAsked ==
    volume.raw.mirrors[CHOOSE k \in 1..Len(volume.raw.mirrors) :
                          NumToString(volume.raw.mirrors[k].id) = volume.mirrorId]

\* C11: at every level that getSources emits, chunkDataSize is
\* (tileWidth, tileHeight, 1) of the mirror asked for, the lower voxel bound
\* is the zero vector and the upper voxel bound is the dimension of the
\* stack, whatever the level and whatever the translation of the stack.
C11_LevelGeometry ==
    sources.state = "returned" =>
       \A k \in 1..Len(sources.groups) :
          LET made == sources.groups[k][1].spec
          IN  /\ made.chunkDataSize =
                    <<RawMirrorAsked.tile_width, RawMirrorAsked.tile_height, 1>>
              /\ made.lowerVoxelBound = <<0, 0, 0>>
              /\ made.upperVoxelBound = volume.raw.dimension

\* Three levels of a stack that has a translation, with tiles that are not
\* square.
C11_Witness ==
    /\ sources.state = "returned"
    /\ Len(sources.groups) = 3
    /\ volume.raw.translation = <<5, 6, 7>>
    /\ volume.raw.dimension = <<4096, 2048, 10>>
    /\ sources.groups[3][1].spec.chunkDataSize = <<512, 256, 1>>
    /\ sources.groups[3][1].spec.upperVoxelBound = <<4096, 2048, 10>>

\* t is Math.ceil(Math.log2(d / 1024)): 2^(t-1) < d / 1024 <= 2^t.
IsCeilLog2(t, d) ==
    IF t >= 0
    THEN d <= 1024 * (2 ^ t) /\ 2 * d > 1024 * (2 ^ t)
    ELSE d * (2 ^ (0 - t)) <= 1024 /\ d * (2 ^ (1 - t)) > 1024

LevelRange == (-11)..12

\* C12: when the stored zoomLevels is negative and the mirror exists, the
\* top level is ceil(max(log2(dimX / 1024), log2(dimY / 1024))) and
\* getSources emits the levels 0..top, one group each, in order; for the
\* dimension (4096, 2048, 10) the top level is 2 and three levels are made.
C12_AutoZoom ==
    (sources.state = "returned" /\ volume.raw.num_zoom_levels < 0) =>
       /\ \A t \in LevelRange :
             IsCeilLog2(t, Max(volume.raw.dimension[1], volume.raw.dimension[2])) =>
                /\ Len(sources.groups) = Cardinality(0..t)
                /\ \A k \in 1..Len(sources.groups) :
                      sources.groups[k][1].parameters.zoomLevel = k - 1
       /\ \E t \in LevelRange :
             IsCeilLog2(t, Max(volume.raw.dimension[1], volume.raw.dimension[2]))
       /\ volume.raw.dimension = <<4096, 2048, 10>> =>
             /\ IsCeilLog2(2, 4096)
             /\ Len(sources.groups) = 3

\* The stack of dimension (4096, 2048, 10) with automatic zoom levels:
\* levels 0, 1 and 2.
C12_Witness ==
    /\ sources.state = "returned"
    /\ volume.raw.num_zoom_levels = -1
    /\ volume.raw.dimension = <<4096, 2048, 10>>
    /\ Len(sources.groups) = 3
    /\ sources.groups[3][1].parameters.zoomLevel = 2

\* C13, as the specification states it: for a stack with a negative stored
\* zoomLevels whose x and y extents are both below 1024, the automatic bound
\* is negative and getSources still returns exactly one group, level 0.
C13_SmallStackOneLevel ==
    (sources.state = "returned" /\ volume.raw.num_zoom_levels < 0
        /\ volume.raw.dimension[1] < 1024 /\ volume.raw.dimension[2] < 1024) =>
       /\ autoNumLevels(volume.raw.dimension) < 0
       /\ Len(sources.groups) = 1
       /\ sources.created = 1
       /\ sources.groups[1][1].parameters.zoomLevel = 0

\* What the code does for such stacks: one level when an extent is above
\* 512 (the bound is 0), no level at all when both are at most 512 (the
\* bound is negative).
C13_SmallStackAsCoded ==
    (sources.state = "returned" /\ volume.raw.num_zoom_levels < 0
        /\ volume.raw.dimension[1] < 1024 /\ volume.raw.dimension[2] < 1024) =>
       IF volume.raw.dimension[1] <= 512 /\ volume.raw.dimension[2] <= 512
       THEN autoNumLevels(volume.raw.dimension) < 0 /\ sources.groups = <<>>
       ELSE autoNumLevels(volume.raw.dimension) = 0 /\ Len(sources.groups) = 1

\* getSources has returned no group for the stack of dimension (512, 300, 5).
C13_Witness ==
    /\ sources.state = "returned"
    /\ volume.raw.num_zoom_levels = -1
    /\ volume.raw.dimension = <<512, 300, 5>>
    /\ sources.groups = <<>>

\* C14: when the mirror id asked for is not a key of the stack's mirrors,
\* getSources throws, and has created no chunk source and returns no list
\* of levels.
C14_MissingMirror ==
    (sources.state # "none" /\ ~HasRawMirror) =>
       /\ sources.state = "thrown"
       /\ sources.created = 0
       /\ sources.groups = <<>>

\* A stack that has one mirror, "2", asked for mirror "1".
C14_Witness ==
    /\ sources.state = "thrown"
    /\ Len(volume.raw.mirrors) = 1
    /\ volume.mirrorId = <<"1">>
    /\ sources.created = 0

\* The prefixes of an address http(s)://host/project/stack/mirror: a
\* beginning of the scheme, or a scheme, a host and what is typed behind it.
GrammarPrefix(url) ==
    \/ StartsWith(Http, url)
    \/ StartsWith(Https, url)
    \/ \E scheme \in {Http, Https} :
          /\ StartsWith(url, scheme)
          /\ Len(url) > Len(scheme)
          /\ url[Len(scheme) + 1] # "/"
          /\ \A k \in 1..Len(url) : url[k] # "?"

\* The address has a scheme, a host of at least one character and the slash
\* behind the host.
ReachesHostSlash(url) ==
    \E scheme \in {Http, Https} : \E k \in (Len(scheme) + 2)..Len(url) :
       /\ StartsWith(url, scheme)
       /\ url[k] = "/"
       /\ \A j \in (Len(scheme) + 1)..(k - 1) : url[j] \notin {"/", "?"}

\* C15, as the specification states it: volumeCompleter runs the cascade,
\* starting with the step-1 probe, for every prefix of the address grammar.
C15_AcceptsAnyPrefix ==
    \A i \in Callers :
       (callers[i].pc # "idle" /\ GrammarPrefix(callers[i].url)) =>
          Len(callers[i].probes) >= 1

\* C15, amended: volumeCompleter runs the cascade, starting with the step-1
\* probe on the projects list of the whole address without its last
\* segment, for every prefix of the grammar that reaches the slash behind
\* the host; every other input, the shorter prefixes of the grammar among
\* them, is rejected with null and no request is made for it.
C15_AcceptsFromHostSlash ==
    \A i \in Callers :
       LET c == callers[i]
       IN  c.pc # "idle" =>
              IF ReachesHostSlash(c.url)
              THEN /\ Len(c.probes) >= 1
                   /\ c.probes[1].key.type = "catmaid:getProjectsList"
                   /\ ~(c.state = "rejected" /\ c.error.kind = "null")
              ELSE /\ c.probes = <<>>
                   /\ c.pc = "done" /\ c.state = "rejected"
                   /\ c.error = [kind |-> "null", pid |-> NoPid]

\* One invocation rejected for "http://c", a prefix of the grammar, and one
\* that has probed for "https://c/".
C15_Witness ==
    /\ callers["a"].url = Http \o Host
    /\ callers["a"].state = "rejected" /\ callers["a"].probes = <<>>
    /\ callers["b"].url = Https \o Host \o <<Slash>>
    /\ Len(callers["b"].probes) >= 1

\* The scheme of a path, and the pieces between the slashes behind it.
SchemeOf(path) ==
    IF StartsWith(path, Https) THEN Https
    ELSE IF StartsWith(path, Http) THEN Http ELSE <<>>

Pieces(path) == Split(SubSeq(path, Len(SchemeOf(path)) + 1, Len(path)))

FrontPieces(path) == SubSeq(Pieces(path), 1, Len(Pieces(path)) - 3)

\* The path is an http(s) prefix and three segments behind it.
Splittable(path) ==
    /\ SchemeOf(path) # <<>>
    /\ Len(Pieces(path)) >= 4
    /\ Join(FrontPieces(path)) # <<>>

\* The call has made no request and no memo entry.
NothingRequested(o) == o.requested = {} /\ o.memoized = {}

\* The call has asked getStackInfo for (url, project, stack) and has made
\* the memo entry of the volume, or was answered from the memo.
AskedStackInfo(o, url, project, stack) ==
    \/ o.stackInfoKey = NoKey /\ NothingRequested(o)
    \/ /\ o.stackInfoKey =
             getStackInfoKey(url, NumberOfSegment(project), NumberOfSegment(stack))
       /\ getVolumeKey(url, o.path) \in o.memoized
       /\ getVolumeKey(url, o.path) \in o.requested

\* C16, as the specification states it: a path that is not an http(s)
\* prefix and three segments makes getVolume throw without a request or a
\* memo entry; of any other path the last three segments are project, stack
\* and mirror, what is in front of them is the server URL, and the stack
\* info is asked for that URL, project and stack.
C16_LastThreeSegments ==
    \A i \in Callers :
       LET o == opened[i]
           n == Len(Pieces(o.path))
           url == SchemeOf(o.path) \o Join(FrontPieces(o.path))
       IN  o.pc # "idle" =>
              IF Splittable(o.path)
              THEN /\ o.pc = "returned"
                   /\ o.url = url
                   /\ o.project = Pieces(o.path)[n - 2]
                   /\ o.stack = Pieces(o.path)[n - 1]
                   /\ o.mirror = Pieces(o.path)[n]
                   /\ AskedStackInfo(o, url, o.project, o.stack)
              ELSE o.pc = "thrown" /\ NothingRequested(o)

\* The slashes of a path that have the scheme and one character or more in
\* front of them, none of these a '?', and two more slashes behind them.
Cuts(path) ==
    {p \in (Len(SchemeOf(path)) + 2)..Len(path) :
        /\ SchemeOf(path) # <<>>
        /\ path[p] = Slash
        /\ \A j \in (Len(SchemeOf(path)) + 1)..(p - 1) : path[j] # "?"
        /\ Cardinality({j \in (p + 1)..Len(path) : path[j] = Slash}) >= 2}

\* C16, amended: getVolume throws, without a request or a memo entry, unless
\* the path has such a slash.  Otherwise the server URL is the path in front
\* of the last such slash, mirror and stack are the last two segments,
\* project is what lies between; for a path without a '?' in front of its
\* third slash from the end these are the last three segments and all that
\* is in front of them.  A call not answered from the memo asks the stack
\* info for that URL, Number(project) and Number(stack) and memoizes the
\* volume under the URL and the path.
C16_Grammar ==
    \A i \in Callers :
       LET o == opened[i]
       IN  o.pc # "idle" =>
              IF Cuts(o.path) = {}
              THEN o.pc = "thrown" /\ NothingRequested(o)
              ELSE LET p == CHOOSE q \in Cuts(o.path) : \A r \in Cuts(o.path) : r <= q
                       behind == Split(SubSeq(o.path, p + 1, Len(o.path)))
                       n == Len(Pieces(o.path))
                   IN  /\ o.pc = "returned"
                       /\ o.url = SubSeq(o.path, 1, p - 1)
                       /\ o.mirror = behind[Len(behind)]
                       /\ o.stack = behind[Len(behind) - 1]
                       /\ o.project = Join(SubSeq(behind, 1, Len(behind) - 2))
                       /\ AskedStackInfo(o, o.url, o.project, o.stack)
                       /\ (\A j \in 1..Len(Join(FrontPieces(o.path))) :
                              Join(FrontPieces(o.path))[j] # "?") =>
                             /\ Len(behind) = 3
                             /\ o.url = SchemeOf(o.path) \o Join(FrontPieces(o.path))
                             /\ <<o.project, o.stack, o.mirror>> =
                                   SubSeq(Pieces(o.path), n - 2, n)

\* Server "http://c/1", project 1, stack 2 and mirror "1" for one call, and
\* a call with a '?' behind the host, which has thrown.
C16_Witness ==
    /\ opened["a"].pc = "returned"
    /\ opened["a"].path = Http \o Host \o <<Slash, "1", Slash, "1", Slash, "2", Slash, "1">>
    /\ opened["a"].url = Http \o Host \o <<Slash, "1">>
    /\ opened["a"].stackInfoKey = getStackInfoKey(Http \o Host \o <<Slash, "1">>, 1, 2)
    /\ opened["a"].mirror = <<"1">>
    /\ opened["b"].pc = "thrown"
    /\ opened["b"].path = Http \o Host \o <<"?", Slash, "1", Slash, "2", Slash, "1">>

\* The position of the mirror a candidate stands for.
PositionOf(candidate) == MapGet(calls.mirrors, candidate.value).position

\* C17: the candidates autoCompleteMirror hands to the prefix matcher are
\* the mirrors of the map, one each, in ascending order of position,
\* whatever the order they were inserted in, and the completions are the
\* matching ones in that order; mirrors inserted with the positions 3, 1, 2
\* are handed over as 1, 2, 3.
C17_MirrorOrder ==
    (calls.fn = "autoCompleteMirror" /\ calls.pc = "returned") =>
       LET cand == calls.candidates
           done == calls.result.completions
       IN  /\ Len(cand) = Len(calls.mirrors)
           /\ {cand[k].value : k \in 1..Len(cand)} =
                 {calls.mirrors[k].key : k \in 1..Len(calls.mirrors)}
           /\ \A a, b \in 1..Len(cand) :
                 a < b => PositionOf(cand[a]) <= PositionOf(cand[b])
           /\ {done[k] : k \in 1..Len(done)} =
                 {cand[k] : k \in {j \in 1..Len(cand) :
                                     StartsWith(cand[j].value, calls.partial)}}
           /\ \A a, b \in 1..Len(done) :
                 a < b => PositionOf(done[a]) <= PositionOf(done[b])
           /\ (Len(calls.mirrors) = 3
                  /\ [k \in 1..3 |-> calls.mirrors[k].value.position] = <<3, 1, 2>>) =>
                 [k \in 1..3 |-> PositionOf(cand[k])] = <<1, 2, 3>>

\* The mirrors 1, 2 and 12, inserted with the positions 3, 1 and 2, are
\* completed as 2, 12, 1.
C17_Witness ==
    /\ calls.fn = "autoCompleteMirror" /\ calls.pc = "returned"
    /\ calls.partial = <<>>
    /\ Len(calls.mirrors) = 3
    /\ [k \in 1..3 |-> calls.mirrors[k].value.position] = <<3, 1, 2>>
    /\ [k \in 1..3 |-> calls.result.completions[k].value] =
          <<<<"2">>, <<"1", "2">>, <<"1">>>>

\* C18: parseProjectsList throws 'No projects found' for the empty array,
\* and for every array of one well-formed project it returns a map of one
\* entry, whose key is the project's id as a string and whose stacks are
\* those of the project, each under its id as a string.
C18_ProjectsList ==
    (calls.fn = "parseProjectsList" /\ calls.pc # "called" /\ calls.body.isArray) =>
       LET items == calls.body.items
       IN  /\ items = <<>> =>
                 calls.pc = "thrown" /\ calls.error = "No projects found"
           /\ (Len(items) = 1 /\ items[1].wellFormed
                  /\ \A j \in 1..Len(items[1].stacks) : items[1].stacks[j].wellFormed) =>
                 /\ calls.pc = "returned"
                 /\ Len(calls.result) = 1
                 /\ calls.result[1].key = NumToString(items[1].id)
                 /\ calls.result[1].value.id = items[1].id
                 /\ calls.result[1].value.title = items[1].title
                 /\ LET stacks == calls.result[1].value.stacks
                    IN  /\ \A k \in 1..Len(stacks) :
                              stacks[k].key = NumToString(stacks[k].value.id)
                        /\ {stacks[k].value.id : k \in 1..Len(stacks)} =
                              {items[1].stacks[j].id : j \in 1..Len(items[1].stacks)}
                        /\ Cardinality({stacks[k].key : k \in 1..Len(stacks)}) =
                              Len(stacks)

\* The list of the one project 12, which has the stacks 12 and 2.
C18_Witness ==
    /\ calls.fn = "parseProjectsList" /\ calls.pc = "returned"
    /\ Len(calls.body.items) = 1
    /\ Len(calls.result) = 1
    /\ calls.result[1].key = <<"1", "2">>
    /\ Len(calls.result[1].value.stacks) = 2
    /\ [k \in 1..2 |-> calls.result[1].value.stacks[k].key] = <<<<"1", "2">>, <<"2">>>>

\* The probes of an invocation that are in flight.
InFlight(c) == {k \in 1..Len(c.probes) : Probed(c, k).state = "pending"}

\* C19: the probes of an invocation are issued one after the other: there
\* is a second probe only when the first has been rejected, and a third only
\* when step 2 has failed; no probe but the latest, which the invocation
\* awaits, is in flight; and an invocation that has succeeded with project
\* or stack completions has issued no deeper probe.
C19_Sequential ==
    \A i \in Callers :
       LET c == callers[i]
       IN  /\ Len(c.probes) >= 2 => Probed(c, 1).state = "rejected"
           /\ Len(c.probes) >= 3 => StepTwoFailed(c)
           /\ Cardinality(InFlight(c)) <= 1
           /\ InFlight(c) \subseteq {Len(c.probes)}
           /\ InFlight(c) # {} =>
                 /\ c.pc \in {"step1", "step2", "step3"}
                 /\ c.awaiting = c.probes[Len(c.probes)].pid
           /\ c.interpretation = "project" => Len(c.probes) = 1
           /\ c.interpretation = "stack" => Len(c.probes) = 2

\* One invocation with its third probe in flight, behind a rejected first
\* and a failed second one, and one that has succeeded at step 2 and has
\* two probes.
C19_Witness ==
    /\ Len(callers["a"].probes) = 3
    /\ InFlight(callers["a"]) = {3}
    /\ Probed(callers["a"], 1).state = "rejected"
    /\ StepTwoFailed(callers["a"])
    /\ callers["b"].interpretation = "stack"
    /\ Len(callers["b"].probes) = 2

\* An invocation that has settled: with one result and no failure, or with
\* one failure and no result.
SettledOnce(c) ==
    /\ c.pc = "done"
    /\ \/ c.state = "fulfilled" /\ c.error = NoError
       \/ c.state = "rejected" /\ c.error # NoError /\ c.result = NoResult

\* C20: when every transport request comes back, an invocation that has
\* started settles, with one result or with one failure, and what it has
\* settled with never changes afterwards.
C20_SettlesOnce ==
    /\ \A i \in Callers :
          (callers[i].pc # "idle") ~> SettledOnce(callers[i])
    /\ [][\A i \in Callers :
             callers[i].pc = "done" => callers'[i] = callers[i]]_vars
    /\ [](\A i \in Callers : callers[i].pc = "done" => SettledOnce(callers[i]))

\* Both invocations have settled, one with mirror completions after three
\* probes and one with the failure of its third probe.
C20_Witness ==
    /\ SettledOnce(callers["a"]) /\ callers["a"].state = "fulfilled"
    /\ callers["a"].interpretation = "mirror" /\ Len(callers["a"].probes) = 3
    /\ SettledOnce(callers["b"]) /\ callers["b"].state = "rejected"
    /\ Len(callers["b"].probes) = 3

\* The stack info promises that have been fulfilled.
FetchedStackInfos ==
    {pid \in DOMAIN promises :
        /\ promises[pid].key.type = "catmaid:getStackInfo"
        /\ promises[pid].state = "fulfilled"}

\* The invocations that have completed mirrors from the promise pid.
MirrorCompletions(pid) ==
    {i \in Callers : /\ callers[i].interpretation = "mirror"
                     /\ callers[i].probes[Len(callers[i].probes)].pid = pid}

\* C21: whatever the number of mirror completions made from it, the
\* memoized stack info holds the mirrors the server sent, under their ids
\* as strings, in the order they were sent in, and getSources on a volume
\* of that stack info makes for every mirror id the levels it makes on the
\* stack info as parsed.
C21_MirrorsUnchanged ==
    \A pid \in FetchedStackInfos :
       LET mirrors == promises[pid].stackInfo.mirrors
           sent == GoodStackInfoBody.mirrors
       IN  /\ Len(mirrors) = Len(sent)
           /\ \A k \in 1..Len(sent) :
                 /\ mirrors[k].key = NumToString(sent[k].id)
                 /\ mirrors[k].value.id = sent[k].id
                 /\ mirrors[k].value.position = sent[k].position
                 /\ mirrors[k].value.url = sent[k].image_base
           /\ \A k \in 1..Len(sent) :
                 LET id == NumToString(sent[k].id)
                 IN  levelLoop(0, numLevelsOf(promises[pid].stackInfo),
                               promises[pid].stackInfo, MapGet(mirrors, id), <<>>).groups
                     = levelLoop(0, GoodStackInfoBody.num_zoom_levels,
                                 parseStackInfo(GoodStackInfoBody),
                                 parseStackMirror(sent[k]), <<>>).groups

\* Two invocations have completed mirrors from the same promise, which was
\* made of mirrors that are not in the order of their positions.
C21_Witness ==
    \E pid \in FetchedStackInfos :
       /\ MirrorCompletions(pid) = Callers
       /\ [k \in 1..3 |-> promises[pid].stackInfo.mirrors[k].value.position] = <<3, 1, 2>>
       /\ \A i \in Callers : Len(callers[i].result.completions) >= 2

\* The getVolume calls that have returned a promise.
Returned == {i \in Callers : opened[i].pc = "returned"}

\* The mirror segment of the call is not a mirror of the stack fetched.
MirrorAbsent(i) ==
    ~MapHas(promises[opened[i].pid].stackInfo.mirrors, opened[i].mirror)

\* C22: the promise getVolume returns is that of the key (url, path); once
\* its stack info is fetched and the continuation has run it is fulfilled
\* with that stack info and the mirror segment of the path, and stays in
\* the memo under that key, whether the stack has such a mirror or not; it
\* is rejected with the failure of the stack info only.  The absence shows
\* in getSources: a call on a volume whose mirror is absent throws and
\* creates nothing, and a call on any other volume returns.
C22_MirrorDeferred ==
    /\ \A i \in Returned :
          LET promise == promises[opened[i].pid]
              from == promises[promise.from]
          IN  /\ promise.key = getVolumeKey(opened[i].url, opened[i].path)
              /\ promise.mirror = opened[i].mirror
              /\ from.key.type = "catmaid:getStackInfo"
              /\ (promise.state # "pending" /\ from.state = "fulfilled") =>
                    /\ promise.state = "fulfilled"
                    /\ promise.stackInfo = from.stackInfo
                    /\ [key |-> promise.key, pid |-> opened[i].pid] \in memo
              /\ promise.state = "rejected" =>
                    /\ from.state = "rejected"
                    /\ promise.error = from.error
    /\ sources.state # "none" =>
          /\ \E i \in Returned :
                /\ promises[opened[i].pid].state = "fulfilled"
                /\ volume.mirrorId = opened[i].mirror
                /\ volume.stackInfo = promises[opened[i].pid].stackInfo
          /\ sources.state = IF MapHas(volume.stackInfo.mirrors, volume.mirrorId)
                             THEN "returned" ELSE "thrown"
          /\ sources.state = "thrown" => sources = mirrorNotFound

\* Two calls with the same path, whose mirror segment "1?" is not a mirror
\* of the stack: the second is served from the memo, the promise is
\* fulfilled, and getSources on the volume has thrown.
C22_Witness ==
    /\ Returned = Callers
    /\ opened["a"].mirror = <<"1", "?">>
    /\ opened["b"].pid = opened["a"].pid
    /\ opened["b"].requested = {}
    /\ promises[opened["a"].pid].state = "fulfilled"
    /\ MirrorAbsent("a")
    /\ [key |-> getVolumeKey(opened["a"].url, opened["a"].path),
        pid |-> opened["a"].pid] \in memo
    /\ volume.mirrorId = <<"1", "?">>
    /\ sources = mirrorNotFound

====
